---------------------------- MODULE Spec2Model ----------------------------
(***************************************************************************)
(* Model of restuarantinfo.py: the bounded same-domain crawler             *)
(* scrape_emails_and_pos_from_website and the helpers it calls             *)
(* (extract_emails, detect_reservation_platform).                          *)
(*                                                                         *)
(* Python strings are modelled as sequences of one-character strings, so   *)
(* substring tests, suffix tests, find/rfind and slicing are computed on   *)
(* the characters, as the code computes them.                              *)
(***************************************************************************)
EXTENDS Integers, Sequences, FiniteSets, TLC

VARIABLES
    start_url,            \* argument start_url
    max_links,            \* argument max_links
    site,                 \* the web site the crawl runs against (index into Sites)
    emails_found,         \* line 290
    pos_system,           \* line 291
    loyalty_programs,     \* line 292
    reservation_platform, \* line 293
    to_scrape,            \* line 295, the frontier
    visited,              \* line 296
    base_domain,          \* line 297
    links_scraped,        \* line 298
    url,                  \* line 301, the URL being processed
    pc,                   \* position of the crawl: "loop", "fetch", "done", "idle"
    returned,             \* the 4-tuple returned at line 380
    history,              \* ghost: what each loop iteration did, in order
    text,                 \* argument of a direct call of extract_emails
    cleaned_emails,       \* its return value
    xpc,                  \* position of that call: "call", "done", "idle"
    d_snippets,           \* the snippets a page given to detect_reservation_platform is made of
    d_html,               \* argument of a direct call of detect_reservation_platform
    d_platform,           \* its return value
    dpc                   \* position of that call: "call", "done", "idle"

crawl_vars == <<start_url, max_links, site, emails_found, pos_system,
                loyalty_programs, reservation_platform, to_scrape, visited,
                base_domain, links_scraped, url, pc, returned, history>>
detect_vars == <<d_snippets, d_html, d_platform, dpc>>
extract_vars == <<text, cleaned_emails, xpc, detect_vars>>
vars == <<crawl_vars, extract_vars>>

----------------------------------------------------------------------------
(* Bounds of the model. *)

\* max_links ranges over 0..MaxBudget
MaxBudget == 4
\* the generated local-part noise of extract_emails inputs has at most this many characters
MaxLocalLen == 3
\* a page given to detect_reservation_platform is made of at most this many snippets
MaxSnippets == 2

----------------------------------------------------------------------------
(* Python str operations on character sequences. *)

Range(s) == {s[i] : i \in 1..Len(s)}
Min(S) == CHOOSE x \in S : \A y \in S : x <= y
Max(S) == CHOOSE x \in S : \A y \in S : x >= y

UpperCase == <<"A", "B", "C", "D", "E", "F", "G", "H", "I", "J", "K", "L", "M", "N", "O", "P", "Q", "R", "S", "T", "U", "V", "W", "X", "Y", "Z">>
LowerCase == <<"a", "b", "c", "d", "e", "f", "g", "h", "i", "j", "k", "l", "m", "n", "o", "p", "q", "r", "s", "t", "u", "v", "w", "x", "y", "z">>
Letters == Range(UpperCase) \cup Range(LowerCase)
Digits == {"0", "1", "2", "3", "4", "5", "6", "7", "8", "9"}

\* str.lower() on one ASCII character
LowerChar(c) ==
    IF c \in Range(UpperCase)
    THEN LowerCase[CHOOSE i \in 1..26 : UpperCase[i] = c]
    ELSE c

\* str.lower()
lower(s) == [i \in 1..Len(s) |-> LowerChar(s[i])]

\* s[a:] with a a Python (0-based) index, 0 <= a <= len(s)
SliceFrom(s, a) == SubSeq(s, a + 1, Len(s))

\* s[:b] with b a Python (0-based) index, clipped to len(s) as Python does
SliceTo(s, b) == SubSeq(s, 1, IF b < Len(s) THEN b ELSE Len(s))

\* the 0-based indices at which sub occurs in s
Occurrences(s, sub) ==
    {i \in 0..(Len(s) - Len(sub)) : SubSeq(s, i + 1, i + Len(sub)) = sub}

\* s.find(sub)
find(s, sub) == IF Occurrences(s, sub) = {} THEN -1 ELSE Min(Occurrences(s, sub))

\* s.rfind(sub)
rfind(s, sub) == IF Occurrences(s, sub) = {} THEN -1 ELSE Max(Occurrences(s, sub))

\* sub in s
contains(s, sub) == Occurrences(s, sub) # {}

\* s.endswith(suffix)
endswith(s, suffix) ==
    /\ Len(suffix) <= Len(s)
    /\ SubSeq(s, Len(s) - Len(suffix) + 1, Len(s)) = suffix

\* the last index j >= i-1 (1-based) such that s[i..j] lies in class cls:
\* the end of the maximal run of cls characters that starts at i
RunEnd(s, i, cls) ==
    CHOOSE j \in (i - 1)..Len(s) :
        /\ \A k \in i..j : s[k] \in cls
        /\ (j = Len(s) \/ s[j + 1] \notin cls)

\* the first index i <= j+1 (1-based) such that s[i..j] lies in class cls:
\* the start of the maximal run of cls characters that ends at j
RunStart(s, j, cls) ==
    CHOOSE i \in 1..(j + 1) :
        /\ \A k \in i..j : s[k] \in cls
        /\ (i = 1 \/ s[i - 1] \notin cls)

----------------------------------------------------------------------------
(* extract_emails, lines 215-267. *)

\* line 224
known_usernames == << <<"i", "n", "f", "o">>, <<"c", "o", "n", "t", "a", "c", "t">>, <<"r", "e", "s", "e", "r", "v", "a", "t", "i", "o", "n", "s">>, <<"s", "a", "l", "e", "s">>, <<"s", "u", "p", "p", "o", "r", "t">>, <<"a", "d", "m", "i", "n">> >>

\* line 225
allowed_chars == Letters \cup Digits \cup {".", "_", "%", "+", "-"}

\* the class [A-Za-z0-9.\-] of domain_pattern, line 220
DomainChars == Letters \cup Digits \cup {".", "-"}

\* The dots at which domain_pattern (line 220) can split a match that starts
\* with the '@' at index at (1-based): at least one class character before the
\* dot and at least two letters after it, all inside the run of class
\* characters that follows the '@'.
DomainDots(s, at) ==
    {d \in (at + 2)..(RunEnd(s, at + 1, DomainChars) - 2) :
        s[d] = "." /\ s[d + 1] \in Letters /\ s[d + 2] \in Letters}

\* re.finditer(domain_pattern, text), line 221: the 1-based indices of the
\* '@' characters at which the pattern matches.  A match holds no second '@',
\* so the matches at different '@' do not overlap and none hides another.
Matches(s) == {at \in 1..Len(s) : s[at] = "@" /\ DomainDots(s, at) # {}}

\* The 1-based index of the last character of the match at at: the greedy
\* [A-Za-z0-9.\-]+ gives back characters until a dot followed by two letters
\* is found (the last such dot), then the greedy [A-Za-z]{2,} takes the whole
\* run of letters.
MatchEnd(s, at) == RunEnd(s, Max(DomainDots(s, at)) + 1, Letters)

\* re.match(r'^[A-Za-z0-9.\-]+\.[A-Za-z]{2,}$', domain), line 230
DomainOk(domain) ==
    \E d \in 2..(Len(domain) - 2) :
        /\ domain[d] = "."
        /\ \A k \in 1..(d - 1) : domain[k] \in DomainChars
        /\ \A k \in (d + 1)..Len(domain) : domain[k] \in Letters

\* lines 233-242: the characters scanned back from just before the '@' while
\* they are allowed characters, in text order
RawLocalPart(s, at) == SubSeq(s, RunStart(s, at - 1, allowed_chars), at - 1)

\* lines 244-251: the known-username repair; found tells whether one matched
UsernameRepairKeepAll(local_part) ==
    LET l_lower == lower(local_part)
        hits == {i \in 1..Len(known_usernames) : endswith(l_lower, known_usernames[i])}
    IN  [found |-> hits # {}, local_part |-> local_part]

UsernameRepair(local_part) ==
    LET l_lower == lower(local_part)
        hits == {i \in 1..Len(known_usernames) : endswith(l_lower, known_usernames[i])}
    IN  IF hits = {}
        THEN [found |-> FALSE, local_part |-> local_part]
        ELSE LET uname == known_usernames[Min(hits)]
                 idx == rfind(l_lower, uname)
             IN  [found |-> TRUE, local_part |-> SliceFrom(local_part, idx)]

\* re.findall(r'[A-Za-z]+', local_part)[-1], lines 254-256: the last maximal
\* run of letters (defined when local_part holds a letter)
LastAlpha(local_part) ==
    LET e == Max({i \in 1..Len(local_part) : local_part[i] \in Letters})
    IN  SubSeq(local_part, RunStart(local_part, e, Letters), e)

\* lines 253-258: the alphabetic-run fallback
AlphaFallbackRunOnly(local_part) ==
    IF \E i \in 1..Len(local_part) : local_part[i] \in Letters
    THEN LastAlpha(local_part)
    ELSE local_part

AlphaFallback(local_part) ==
    IF \E i \in 1..Len(local_part) : local_part[i] \in Letters
    THEN LET last_alpha == LastAlpha(local_part)
             pos2 == rfind(lower(local_part), lower(last_alpha))
         IN  SliceFrom(local_part, pos2)
    ELSE local_part

\* re.sub(r'^[^A-Za-z0-9]+', '', local_part), line 260
StripLeadingNone(local_part) == local_part

StripLeading(local_part) ==
    SubSeq(local_part, RunEnd(local_part, 1, Range(local_part) \ (Letters \cup Digits)) + 1,
           Len(local_part))

\* One iteration of the loop of lines 227-265 for the match at at: the set
\* of emails it adds (empty where the code continues).
EmailOfMatch(s, at) ==
    LET domain == SubSeq(s, at + 1, MatchEnd(s, at))
        raw == RawLocalPart(s, at)
        repaired == UsernameRepair(raw)
        local_part == StripLeading(IF repaired.found
                                   THEN repaired.local_part
                                   ELSE AlphaFallback(repaired.local_part))
    IN  IF ~DomainOk(domain) THEN {}
        ELSE IF raw = <<>> THEN {}
        ELSE IF local_part = <<>> THEN {}
        ELSE {local_part \o <<"@">> \o domain}

\* lines 215-267
extract_emails(s) == UNION {EmailOfMatch(s, at) : at \in Matches(s)}

----------------------------------------------------------------------------
(* detect_reservation_platform, lines 269-282. *)

S_Resy == <<"R", "e", "s", "y">>
S_OpenTable == <<"O", "p", "e", "n", "T", "a", "b", "l", "e">>
S_Tock == <<"T", "o", "c", "k">>
S_Toast == <<"T", "o", "a", "s", "t">>
S_inKind == <<"i", "n", "K", "i", "n", "d">>
S_SpotOn == <<"S", "p", "o", "t", "O", "n">>
\* the empty string ""
Empty == <<>>

DetectOpenTableFirst(html_content) ==
    IF contains(html_content, S_OpenTable) \/ contains(html_content, <<"o", "p", "e", "n", "t", "a", "b", "l", "e", ".", "c", "o", "m">>)
    THEN S_OpenTable
    ELSE IF \/ contains(html_content, <<"i", "d", "=", "\"", "r", "e", "s", "y", "_", "b", "u", "t", "t", "o", "n", "_", "c", "o", "n", "t", "a", "i", "n", "e", "r", "\"">>)
            \/ contains(html_content, <<"w", "i", "d", "g", "e", "t", "s", ".", "r", "e", "s", "y", ".", "c", "o", "m">>)
            \/ contains(html_content, <<"r", "e", "s", "y", ".", "c", "o", "m">>)
            \/ contains(html_content, S_Resy)
    THEN S_Resy
    ELSE IF contains(html_content, S_Tock) \/ contains(html_content, <<"e", "x", "p", "l", "o", "r", "e", "t", "o", "c", "k", ".", "c", "o", "m">>)
    THEN S_Tock
    ELSE Empty
detect_reservation_platform(html_content) ==
    IF \/ contains(html_content, <<"i", "d", "=", "\"", "r", "e", "s", "y", "_", "b", "u", "t", "t", "o", "n", "_", "c", "o", "n", "t", "a", "i", "n", "e", "r", "\"">>)
       \/ contains(html_content, <<"w", "i", "d", "g", "e", "t", "s", ".", "r", "e", "s", "y", ".", "c", "o", "m">>)
       \/ contains(html_content, <<"r", "e", "s", "y", ".", "c", "o", "m">>)
       \/ contains(html_content, S_Resy)
    THEN S_Resy
    ELSE IF contains(html_content, S_OpenTable) \/ contains(html_content, <<"o", "p", "e", "n", "t", "a", "b", "l", "e", ".", "c", "o", "m">>)
    THEN S_OpenTable
    ELSE IF contains(html_content, S_Tock) \/ contains(html_content, <<"e", "x", "p", "l", "o", "r", "e", "t", "o", "c", "k", ".", "c", "o", "m">>)
    THEN S_Tock
    ELSE Empty

----------------------------------------------------------------------------
(* urllib.parse on the URLs the model draws: absolute URLs                  *)
(* scheme://netloc/path and path-absolute hrefs /path.                      *)

\* the 0-based index of "://" in u, or -1
SchemeSep(u) == find(u, <<":", "/", "/">>)

\* urlparse(u).netloc: from after "://" up to the next '/', '?' or '#';
\* the case of the characters is kept
netloc(u) ==
    IF SchemeSep(u) = -1 THEN Empty
    ELSE SubSeq(u, SchemeSep(u) + 4,
                RunEnd(u, SchemeSep(u) + 4, Range(u) \ {"/", "?", "#"}))

\* urlparse(u).path: from the end of the netloc up to the next '?' or '#'
path(u) ==
    LET from == IF SchemeSep(u) = -1 THEN 1
                ELSE SchemeSep(u) + 4 + Len(netloc(u))
    IN  SubSeq(u, from, RunEnd(u, from, Range(u) \ {"?", "#"}))

\* urljoin(base, href), line 346: an href with a scheme is already absolute;
\* a path-absolute href replaces the path of the base
urljoin(base, href) ==
    IF SchemeSep(href) # -1 THEN href
    ELSE SubSeq(base, 1, SchemeSep(base) + 3 + Len(netloc(base))) \o href

----------------------------------------------------------------------------
(* The link prioritizer, lines 343-360. *)

\* line 357
priority_keywords == << <<"r", "e", "s", "e", "r", "v", "a", "t", "i", "o", "n">>, <<"b", "o", "o", "k">>, <<"r", "e", "s", "y">>, <<"o", "p", "e", "n", "t", "a", "b", "l", "e">>, <<"t", "o", "c", "k">> >>

\* line 352
blocked_extensions == << <<".", "p", "d", "f">>, <<".", "j", "p", "g">>, <<".", "p", "n", "g">> >>

\* line 350
SameDomainAnyHost(absolute_link, base) == TRUE

SameDomain(absolute_link, base) == netloc(absolute_link) = base

\* line 352
SkippedFileTypePdfOnly(absolute_link) ==
    endswith(path(absolute_link), <<".", "p", "d", "f">>)

SkippedFileType(absolute_link) ==
    \E i \in 1..Len(blocked_extensions) :
        endswith(path(absolute_link), blocked_extensions[i])

\* lines 355-357
IsPriority(link_text_raw, absolute_link) ==
    LET link_text == lower(link_text_raw)
        link_url == lower(absolute_link)
    IN  \E i \in 1..Len(priority_keywords) :
            \/ contains(link_text, priority_keywords[i])
            \/ contains(link_url, priority_keywords[i])

\* lines 345-353: the anchors of the page at page_url that pass the domain
\* and file-type tests, in document order
InternalAnchors(page_url, anchors, base) ==
    LET Keep(a) == /\ SameDomain(urljoin(page_url, a.href), base)
                   /\ ~SkippedFileType(urljoin(page_url, a.href))
    IN  SelectSeq(anchors, Keep)

\* lines 343-358: priority_links after the loop over the anchors
priority_links(page_url, anchors, base) ==
    LET Pri(a) == IsPriority(a.text, urljoin(page_url, a.href))
        kept == SelectSeq(InternalAnchors(page_url, anchors, base), Pri)
    IN  [i \in 1..Len(kept) |-> urljoin(page_url, kept[i].href)]

\* lines 344-360: normal_links after the loop over the anchors
normal_links(page_url, anchors, base) ==
    LET Nor(a) == ~IsPriority(a.text, urljoin(page_url, a.href))
        kept == SelectSeq(InternalAnchors(page_url, anchors, base), Nor)
    IN  [i \in 1..Len(kept) |-> urljoin(page_url, kept[i].href)]

\* lines 364 and 368: the admission test
AdmitOkOffByOne(vis, frontier, budget) ==
    Cardinality(vis) + Len(frontier) <= budget + 1

AdmitOk(vis, frontier, budget) ==
    Cardinality(vis) + Len(frontier) < budget + 1

\* lines 363-365 and 367-369: one of the two loops that append links to
\* to_scrape subject to the admission test
RECURSIVE AdmitPrepend(_, _, _, _)
AdmitPrepend(frontier, vis, links, budget) ==
    IF links = <<>> THEN frontier
    ELSE AdmitPrepend(IF AdmitOk(vis, frontier, budget)
                      THEN <<Head(links)>> \o frontier
                      ELSE frontier,
                      vis, Tail(links), budget)
RECURSIVE Admit(_, _, _, _)
Admit(frontier, vis, links, budget) ==
    IF links = <<>> THEN frontier
    ELSE Admit(IF AdmitOk(vis, frontier, budget)
               THEN Append(frontier, Head(links))
               ELSE frontier,
               vis, Tail(links), budget)

\* lines 362-369: priority links first, then normal links
AddLinksNormalFirst(frontier, vis, pri, nor, budget) ==
    Admit(Admit(frontier, vis, nor, budget), vis, pri, budget)

AddLinks(frontier, vis, pri, nor, budget) ==
    Admit(Admit(frontier, vis, pri, budget), vis, nor, budget)

----------------------------------------------------------------------------
(* The per-page findings, lines 314-340. *)

\* lines 319-324: the clean-up of one extracted email
CleanEmailLastCom(email) ==
    IF contains(email, <<"@">>) /\ contains(email, <<".", "c", "o", "m">>)
    THEN SliceTo(email, rfind(email, <<".", "c", "o", "m">>) + 4)
    ELSE email
CleanEmail(email) ==
    IF contains(email, <<"@">>) /\ contains(email, <<".", "c", "o", "m">>)
    THEN SliceTo(email, find(email, <<".", "c", "o", "m">>) + 4)
    ELSE email

\* lines 329-330
NewPosSystemPerPage(pos, html_content) ==
    IF contains(html_content, <<"w", "w", "w", ".", "t", "o", "a", "s", "t", "t", "a", "b", ".", "c", "o", "m">>) THEN S_Toast ELSE Empty
NewPosSystem(pos, html_content) ==
    IF contains(html_content, <<"w", "w", "w", ".", "t", "o", "a", "s", "t", "t", "a", "b", ".", "c", "o", "m">>) /\ pos # S_Toast
    THEN S_Toast
    ELSE pos

\* lines 331-334
NewLoyaltyPrograms(loyalty, html_content) ==
    LET l1 == IF contains(html_content, <<"i", "n", "k", "i", "n", "d", "s", "c", "r", "i", "p", "t", ".", "c", "o", "m">>) /\ S_inKind \notin Range(loyalty)
              THEN Append(loyalty, S_inKind) ELSE loyalty
    IN  IF contains(html_content, <<"s", "p", "o", "t", "o", "n", ".", "c", "o", "m">>) /\ S_SpotOn \notin Range(l1)
        THEN Append(l1, S_SpotOn) ELSE l1

\* lines 337-340
NewReservationPlatformLastWins(platform, html_content) ==
    IF detect_reservation_platform(html_content) # Empty
    THEN detect_reservation_platform(html_content)
    ELSE platform

NewReservationPlatform(platform, html_content) ==
    IF platform = Empty
    THEN IF detect_reservation_platform(html_content) # Empty
         THEN detect_reservation_platform(html_content)
         ELSE platform
    ELSE platform

----------------------------------------------------------------------------
(* The web sites the crawl is run against: what session.get and            *)
(* BeautifulSoup (lines 308-312, 345) hand to the crawl for each URL.       *)

\* an <a href=...> element: link['href'] and link.get_text()
Anchor(href, link_text) == [href |-> href, text |-> link_text]

\* the contribution of the anchors to soup.get_text()
RECURSIVE AnchorTexts(_)
AnchorTexts(anchors) ==
    IF anchors = <<>> THEN Empty
    ELSE <<" ">> \o Head(anchors).text \o AnchorTexts(Tail(anchors))

\* the contribution of the anchors to soup.prettify()
RECURSIVE AnchorMarkup(_)
AnchorMarkup(anchors) ==
    IF anchors = <<>> THEN Empty
    ELSE <<"<", "a", " ", "h", "r", "e", "f", "=", "\"">> \o Head(anchors).href \o <<"\"", ">">> \o Head(anchors).text \o <<"<", "/", "a", ">">>
         \o AnchorMarkup(Tail(anchors))

\* A fetched page as the crawl sees it: text is soup.get_text() (line 311),
\* html_content is soup.prettify() (line 312), anchors is
\* soup.find_all('a', href=True) (line 345).  head is markup that is not
\* visible text, body is visible text.
WebPage(head, body, anchors) ==
    [text |-> body \o AnchorTexts(anchors),
     html_content |-> head \o body \o AnchorMarkup(anchors),
     anchors |-> anchors]

U_home == <<"h", "t", "t", "p", ":", "/", "/", "a", ".", "c", "o", "/">>
U_menu == <<"h", "t", "t", "p", ":", "/", "/", "a", ".", "c", "o", "/", "m", "e", "n", "u">>
U_book == <<"h", "t", "t", "p", ":", "/", "/", "a", ".", "c", "o", "/", "b", "o", "o", "k">>
U_about == <<"h", "t", "t", "p", ":", "/", "/", "a", ".", "c", "o", "/", "a", "b", "o", "u", "t">>
U_tables == <<"h", "t", "t", "p", ":", "/", "/", "a", ".", "c", "o", "/", "t", "a", "b", "l", "e", "s">>
U_hours == <<"h", "t", "t", "p", ":", "/", "/", "a", ".", "c", "o", "/", "h", "o", "u", "r", "s">>
U_resy == <<"h", "t", "t", "p", ":", "/", "/", "a", ".", "c", "o", "/", "r", "e", "s", "y">>
U_team == <<"h", "t", "t", "p", ":", "/", "/", "a", ".", "c", "o", "/", "t", "e", "a", "m">>
U_press == <<"h", "t", "t", "p", ":", "/", "/", "a", ".", "c", "o", "/", "p", "r", "e", "s", "s">>
U_contact == <<"h", "t", "t", "p", ":", "/", "/", "a", ".", "c", "o", "/", "c", "o", "n", "t", "a", "c", "t">>
U_gone == <<"h", "t", "t", "p", ":", "/", "/", "a", ".", "c", "o", "/", "g", "o", "n", "e">>
U_menu_pdf == <<"h", "t", "t", "p", ":", "/", "/", "a", ".", "c", "o", "/", "m", "e", "n", "u", ".", "p", "d", "f">>
U_other_host == <<"h", "t", "t", "p", "s", ":", "/", "/", "r", "e", "s", "y", ".", "c", "o", "m", "/", "a">>
U_other_case == <<"h", "t", "t", "p", ":", "/", "/", "A", ".", "c", "o", "/", "b", "o", "o", "k">>

HomeLink == Anchor(<<"/">>, <<"H", "o", "m", "e">>)

\* Site 1: a home page with 3 priority and 5 normal same-host links, all
\* distinct, priority and normal links interleaved in the document.  /hours,
\* /team and /press are linked but not served.  starts are the URLs a
\* crawl of the site may be started at.
Site1 ==
    [starts |-> {U_home, U_book, U_resy, U_menu, U_hours},
     pages |->
        (U_home :> WebPage(Empty, <<"W", "e", "l", "c", "o", "m", "e">>,
            << Anchor(<<"/", "m", "e", "n", "u">>, <<"M", "e", "n", "u">>),
               Anchor(<<"/", "b", "o", "o", "k">>, <<"B", "o", "o", "k">>),
               Anchor(<<"/", "a", "b", "o", "u", "t">>, <<"A", "b", "o", "u", "t">>),
               Anchor(<<"/", "t", "a", "b", "l", "e", "s">>, <<"R", "e", "s", "e", "r", "v", "a", "t", "i", "o", "n", "s">>),
               Anchor(<<"/", "h", "o", "u", "r", "s">>, <<"H", "o", "u", "r", "s">>),
               Anchor(<<"h", "t", "t", "p", ":", "/", "/", "a", ".", "c", "o", "/", "r", "e", "s", "y">>, <<"T", "a", "b", "l", "e">>),
               Anchor(<<"/", "t", "e", "a", "m">>, <<"T", "e", "a", "m">>),
               Anchor(<<"/", "p", "r", "e", "s", "s">>, <<"P", "r", "e", "s", "s">>) >>))
        @@ (U_book :> WebPage(<<"<", "s", "c", "r", "i", "p", "t", " ", "s", "r", "c", "=", "\"", "/", "/", "w", "w", "w", ".", "o", "p", "e", "n", "t", "a", "b", "l", "e", ".", "c", "o", "m", "/", "w", ".", "j", "s", "\"", ">">>
                                  \o <<"<", "s", "c", "r", "i", "p", "t", " ", "s", "r", "c", "=", "\"", "h", "t", "t", "p", "s", ":", "/", "/", "w", "w", "w", ".", "s", "p", "o", "t", "o", "n", ".", "c", "o", "m", "/", "s", ".", "j", "s", "\"", ">">>,
                              <<"B", "o", "o", "k", " ", "n", "o", "w">>,
            << HomeLink >>))
        @@ (U_tables :> WebPage(<<"<", "d", "i", "v", " ", "i", "d", "=", "\"", "r", "e", "s", "y", "_", "b", "u", "t", "t", "o", "n", "_", "c", "o", "n", "t", "a", "i", "n", "e", "r", "\"", ">">>, <<"R", "e", "s", "e", "r", "v", "e">>,
            << HomeLink >>))
        @@ (U_resy :> WebPage(<<"<", "s", "c", "r", "i", "p", "t", " ", "s", "r", "c", "=", "\"", "h", "t", "t", "p", "s", ":", "/", "/", "w", "w", "w", ".", "s", "p", "o", "t", "o", "n", ".", "c", "o", "m", "/", "s", ".", "j", "s", "\"", ">">>, <<"T", "a", "b", "l", "e", "s", " ", "b", "y", " ", "T", "o", "c", "k">>,
            << HomeLink, Anchor(<<"/", "b", "o", "o", "k">>, <<"B", "o", "o", "k">>) >>))
        @@ (U_menu :> WebPage(<<"<", "s", "c", "r", "i", "p", "t", " ", "s", "r", "c", "=", "\"", "h", "t", "t", "p", "s", ":", "/", "/", "w", "w", "w", ".", "t", "o", "a", "s", "t", "t", "a", "b", ".", "c", "o", "m", "/", "t", ".", "j", "s", "\"", ">">>,
            <<"E", "m", "a", "i", "l", " ", "u", "s", " ", "a", "t", " ", "h", "o", "m", "e", "i", "n", "f", "o", "@", "r", "e", "s", "t", "a", "u", "r", "a", "n", "t", ".", "c", "o", "m", " ", "f", "o", "r", " ", "b", "o", "o", "k", "i", "n", "g", "s">>, << HomeLink >>))
        @@ (U_about :> WebPage(<<"<", "s", "c", "r", "i", "p", "t", " ", "s", "r", "c", "=", "\"", "h", "t", "t", "p", "s", ":", "/", "/", "i", "n", "k", "i", "n", "d", "s", "c", "r", "i", "p", "t", ".", "c", "o", "m", "/", "i", ".", "j", "s", "\"", ">">>,
            <<"r", "e", "a", "c", "h", " ", "b", "o", "b", ".", "s", "m", "i", "t", "h", "1", "2", "3", "@", "p", "l", "a", "c", "e", ".", "c", "o", ".", "u", "k">>, << HomeLink >>))]

\* Site 2: a home page that links to itself, to other hosts (one with a
\* priority keyword, one differing from the start host only in case), to a
\* .pdf with a priority keyword, and twice to the same page.  /gone is
\* linked but not served.
Site2 ==
    [starts |-> {U_home, U_contact, U_book, U_gone},
     pages |->
        (U_home :> WebPage(Empty, <<"D", "i", "n", "e", " ", "w", "i", "t", "h", " ", "u", "s">>,
            << HomeLink,
               Anchor(U_other_host, <<"R", "e", "s", "e", "r", "v", "e">>),
               Anchor(<<"/", "m", "e", "n", "u", ".", "p", "d", "f">>, <<"B", "o", "o", "k", " ", "m", "e", "n", "u">>),
               Anchor(U_other_case, <<"B", "o", "o", "k">>),
               Anchor(<<"/", "c", "o", "n", "t", "a", "c", "t">>, <<"C", "o", "n", "t", "a", "c", "t">>),
               Anchor(<<"/", "b", "o", "o", "k">>, <<"B", "o", "o", "k", " ", "a", " ", "t", "a", "b", "l", "e">>),
               Anchor(<<"/", "c", "o", "n", "t", "a", "c", "t">>, <<"C", "o", "n", "t", "a", "c", "t", " ", "u", "s">>) >>))
        @@ (U_contact :> WebPage(<<"<", "s", "c", "r", "i", "p", "t", " ", "s", "r", "c", "=", "\"", "h", "t", "t", "p", "s", ":", "/", "/", "w", "w", "w", ".", "s", "p", "o", "t", "o", "n", ".", "c", "o", "m", "/", "s", ".", "j", "s", "\"", ">">>,
            <<"W", "r", "i", "t", "e", " ", "t", "o", " ", "s", "a", "l", "e", "s", "@", "a", ".", "c", "o", " ", "o", "r", " ", "I", "n", "f", "o", "@", "a", ".", "c", "o", "m", "N", "o", "w">>,
            << HomeLink, Anchor(<<"/", "b", "o", "o", "k">>, <<"B", "o", "o", "k">>), Anchor(<<"/", "p", "h", "o", "t", "o", ".", "j", "p", "g">>, <<"B", "o", "o", "k", " ", "p", "h", "o", "t", "o">>),
               Anchor(<<"/", "g", "o", "n", "e">>, <<"O", "l", "d", " ", "p", "a", "g", "e">>), Anchor(<<"/", "m", "a", "p", ".", "p", "n", "g">>, <<"M", "a", "p">>) >>))
        @@ (U_book :> WebPage(<<"<", "s", "c", "r", "i", "p", "t", " ", "s", "r", "c", "=", "\"", "h", "t", "t", "p", "s", ":", "/", "/", "i", "n", "k", "i", "n", "d", "s", "c", "r", "i", "p", "t", ".", "c", "o", "m", "/", "i", ".", "j", "s", "\"", ">">>,
            <<"F", "i", "n", "d", " ", "u", "s", " ", "o", "n", " ", "O", "p", "e", "n", "T", "a", "b", "l", "e", " ", "o", "r", " ", "e", "a", "t", "@", "a", ".", "c", "o", "m", ".", "c", "o", "m", "p", "a", "n", "y">>,
            << Anchor(<<"/", "c", "o", "n", "t", "a", "c", "t">>, <<"C", "o", "n", "t", "a", "c", "t">>), Anchor(U_home, <<"H", "o", "m", "e">>) >>))]

Sites == << Site1, Site2 >>

\* the page the site serves for URL u
PageOf(s, u) == Sites[s].pages[u]

\* whether the site serves a page for URL u (otherwise every fetch of it fails)
Serves(s, u) == u \in DOMAIN Sites[s].pages

----------------------------------------------------------------------------
(* scrape_emails_and_pos_from_website, lines 284-380. *)

\* line 300
LoopCondInclusive(frontier, n, budget) == frontier # <<>> /\ n <= budget

LoopCondStopsEarly(frontier, n, budget) == frontier # <<>> /\ n + 1 < budget

LoopCond(frontier, n, budget) == frontier # <<>> /\ n < budget

\* line 302
IsVisitedNever(u, vis) == FALSE

IsVisited(u, vis) == u \in vis

\* list(set(loyalty_programs)), line 377: the distinct elements in an order
\* the code does not determine
Orders(S) == {s \in [1..Cardinality(S) -> S] : Range(s) = S}

\* '; '.join(loyalty_programs), line 380
RECURSIVE Join(_)
Join(names) ==
    IF names = <<>> THEN Empty
    ELSE IF Len(names) = 1 THEN Head(names)
    ELSE Head(names) \o <<";", " ">> \o Join(Tail(names))

Init ==
    /\ site \in 1..Len(Sites)
    /\ start_url \in Sites[site].starts
    /\ max_links \in 0..MaxBudget
    /\ emails_found = {}
    /\ pos_system = Empty
    /\ loyalty_programs = <<>>
    /\ reservation_platform = Empty
    /\ to_scrape = <<start_url>>
    /\ visited = {}
    /\ base_domain = netloc(start_url)
    /\ links_scraped = 0
    /\ url = Empty
    /\ pc = "loop"
    /\ returned = <<>>
    /\ history = <<>>
    /\ text = Empty
    /\ cleaned_emails = {}
    /\ xpc = "idle"
    /\ d_snippets = <<>>
    /\ d_html = Empty
    /\ d_platform = Empty
    /\ dpc = "idle"

\* lines 308-309: what a failing fetch raises: session.get on a timeout or
\* a connection failure, raise_for_status on a non-2xx status
FetchErrors == {"Timeout", "ConnectionError", "HTTPError"}

\* the subclasses of requests.exceptions.RequestException among the errors
\* of the requests library
RequestException ==
    {"Timeout", "ConnectionError", "HTTPError", "TooManyRedirects", "InvalidURL"}

\* except requests.exceptions.RequestException, line 373: whether the
\* handler catches the error; an error it does not catch leaves the crawl
\* (pc = "raised")
CaughtHTTPErrorOnly(error) == error = "HTTPError"

Caught(error) == error \in RequestException

\* lines 300-303: the popped URL is already in visited
SkipCounts ==
    /\ pc = "loop"
    /\ LoopCond(to_scrape, links_scraped, max_links)
    /\ IsVisited(Head(to_scrape), visited)
    /\ url' = Head(to_scrape)
    /\ to_scrape' = Tail(to_scrape)
    /\ links_scraped' = links_scraped + 1
    /\ history' = Append(history, [url |-> Head(to_scrape), what |-> "skipped"])
    /\ UNCHANGED <<start_url, max_links, site, emails_found, pos_system,
                   loyalty_programs, reservation_platform, visited, base_domain,
                   pc, returned, extract_vars>>
Skip ==
    /\ pc = "loop"
    /\ LoopCond(to_scrape, links_scraped, max_links)
    /\ IsVisited(Head(to_scrape), visited)
    /\ url' = Head(to_scrape)
    /\ to_scrape' = Tail(to_scrape)
    /\ history' = Append(history, [url |-> Head(to_scrape), what |-> "skipped"])
    /\ UNCHANGED <<start_url, max_links, site, emails_found, pos_system,
                   loyalty_programs, reservation_platform, visited, base_domain,
                   links_scraped, pc, returned, extract_vars>>

\* lines 300-306: the popped URL is marked visited, then its fetch starts
Visit ==
    /\ pc = "loop"
    /\ LoopCond(to_scrape, links_scraped, max_links)
    /\ ~IsVisited(Head(to_scrape), visited)
    /\ url' = Head(to_scrape)
    /\ to_scrape' = Tail(to_scrape)
    /\ visited' = visited \cup {Head(to_scrape)}
    /\ pc' = "fetch"
    /\ UNCHANGED <<start_url, max_links, site, emails_found, pos_system,
                   loyalty_programs, reservation_platform, base_domain,
                   links_scraped, returned, history, extract_vars>>

\* lines 307-309, 373-375: session.get or raise_for_status raises
FetchFailCounts ==
    /\ pc = "fetch"
    /\ pc' = "loop"
    /\ links_scraped' = links_scraped + 1
    /\ history' = Append(history, [url |-> url, what |-> "failed"])
    /\ UNCHANGED <<start_url, max_links, site, emails_found, pos_system,
                   loyalty_programs, reservation_platform, to_scrape, visited,
                   base_domain, url, returned, extract_vars>>

FetchFail ==
    /\ pc = "fetch"
    /\ \E error \in FetchErrors :
          IF Caught(error)
          THEN /\ pc' = "loop"
               /\ history' = Append(history, [url |-> url, what |-> "failed"])
          ELSE /\ pc' = "raised"
               /\ UNCHANGED history
    /\ UNCHANGED <<start_url, max_links, site, emails_found, pos_system,
                   loyalty_programs, reservation_platform, to_scrape, visited,
                   base_domain, links_scraped, url, returned, extract_vars>>

\* lines 307-371: the fetch succeeds
FetchOk ==
    /\ pc = "fetch"
    /\ Serves(site, url)
    /\ LET page == PageOf(site, url)
           new_emails == extract_emails(page.text)
       IN  /\ emails_found' = emails_found \cup {CleanEmail(e) : e \in new_emails}
           /\ pos_system' = NewPosSystem(pos_system, page.html_content)
           /\ loyalty_programs' = NewLoyaltyPrograms(loyalty_programs, page.html_content)
           /\ reservation_platform' =
                  NewReservationPlatform(reservation_platform, page.html_content)
           /\ to_scrape' = AddLinks(to_scrape, visited,
                                    priority_links(url, page.anchors, base_domain),
                                    normal_links(url, page.anchors, base_domain),
                                    max_links)
    /\ links_scraped' = links_scraped + 1
    /\ pc' = "loop"
    /\ history' = Append(history, [url |-> url, what |-> "ok"])
    /\ UNCHANGED <<start_url, max_links, site, visited, base_domain, url,
                   returned, extract_vars>>

\* lines 300, 377-380: the loop ends and the findings are returned
Finish ==
    /\ pc = "loop"
    /\ ~LoopCond(to_scrape, links_scraped, max_links)
    /\ \E order \in Orders(Range(loyalty_programs)) :
          /\ loyalty_programs' = order
          /\ returned' = <<emails_found, pos_system, Join(order), reservation_platform>>
    /\ pc' = "done"
    /\ UNCHANGED <<start_url, max_links, site, emails_found, pos_system,
                   reservation_platform, to_scrape, visited, base_domain,
                   links_scraped, url, history, extract_vars>>

Next == Skip \/ Visit \/ FetchFail \/ FetchOk \/ Finish

Spec == Init /\ [][Next]_vars

\* Every fetch returns within its timeout (line 308) and the loop is the
\* only thread of control, so a step that can be taken is taken.
FairSpec == Spec /\ WF_vars(Next)

----------------------------------------------------------------------------
(* A direct call extract_emails(text). *)

\* the characters the generated local-part noise is made of
NoiseAlphabet == {"b", "7", "."}

Noise == UNION {[1..k -> NoiseAlphabet] : k \in 0..MaxLocalLen}

Text_info == <<"E", "m", "a", "i", "l", " ", "u", "s", " ", "a", "t", " ", "h", "o", "m", "e", "i", "n", "f", "o", "@", "r", "e", "s", "t", "a", "u", "r", "a", "n", "t", ".", "c", "o", "m", " ", "f", "o", "r", " ", "b", "o", "o", "k", "i", "n", "g", "s">>
Text_smith == <<"r", "e", "a", "c", "h", " ", "b", "o", "b", ".", "s", "m", "i", "t", "h", "1", "2", "3", "@", "p", "l", "a", "c", "e", ".", "c", "o", ".", "u", "k">>
Text_mixed == <<"@", "x", ".", "c", "o", "m", " ", "o", "r", " ", ".", "-", "@", "y", ".", "c", "o", "m", " ", "o", "r", " ", ".", "7", "@", "z", ".", "c", "o", "m">>

Texts ==
    {Text_info, Text_smith, Text_mixed}
    \cup {pre \o noise \o tail \o <<"@">> \o dom \o post :
            pre \in {Empty, <<"s", "e", "e", " ">>},
            noise \in Noise,
            tail \in {Empty, <<"i", "n", "f", "o">>, <<"A", "d", "m", "i", "n">>, <<"s", "m", "i", "t", "h", "1", "2">>},
            dom \in {<<"x", ".", "c", "o", "m">>, <<"p", "l", "a", "c", "e", ".", "c", "o", ".", "u", "k">>, <<"x", ".", "c", "o", "m", "C", "a", "l", "l">>, <<"x", ".", "c">>},
            post \in {Empty, <<".", " ", "B", "y", "e">>}}

InitExtract ==
    /\ text \in Texts
    /\ cleaned_emails = {}
    /\ xpc = "call"
    /\ d_snippets = <<>>
    /\ d_html = Empty
    /\ d_platform = Empty
    /\ dpc = "idle"
    /\ site = 1
    /\ start_url = Empty
    /\ max_links = 0
    /\ emails_found = {}
    /\ pos_system = Empty
    /\ loyalty_programs = <<>>
    /\ reservation_platform = Empty
    /\ to_scrape = <<>>
    /\ visited = {}
    /\ base_domain = Empty
    /\ links_scraped = 0
    /\ url = Empty
    /\ pc = "idle"
    /\ returned = <<>>
    /\ history = <<>>

\* lines 215-267
Extract ==
    /\ xpc = "call"
    /\ cleaned_emails' = extract_emails(text)
    /\ xpc' = "done"
    /\ UNCHANGED <<text, detect_vars, crawl_vars>>

NextExtract == Extract

SpecExtract == InitExtract /\ [][NextExtract]_vars

----------------------------------------------------------------------------
(* A direct call detect_reservation_platform(html_content). *)

\* The pieces of markup the pages of this call are made of: the eight
\* trigger substrings of lines 273-280, markup with no trigger, and the
\* vendor names in lower case, which are not triggers.
Snippets ==
    << <<"i", "d", "=", "\"", "r", "e", "s", "y", "_", "b", "u", "t", "t", "o", "n", "_", "c", "o", "n", "t", "a", "i", "n", "e", "r", "\"">>, <<"w", "i", "d", "g", "e", "t", "s", ".", "r", "e", "s", "y", ".", "c", "o", "m">>, <<"r", "e", "s", "y", ".", "c", "o", "m">>, <<"R", "e", "s", "y">>,
       <<"O", "p", "e", "n", "T", "a", "b", "l", "e">>, <<"o", "p", "e", "n", "t", "a", "b", "l", "e", ".", "c", "o", "m">>,
       <<"T", "o", "c", "k">>, <<"e", "x", "p", "l", "o", "r", "e", "t", "o", "c", "k", ".", "c", "o", "m">>,
       <<"<", "p", ">", "H", "i", "<", "/", "p", ">">>, <<"r", "e", "s", "y", " ", "o", "p", "e", "n", "t", "a", "b", "l", "e", " ", "t", "o", "c", "k">> >>

\* the page made of the snippets numbered in seq, one per line
RECURSIVE MarkupOf(_)
MarkupOf(seq) ==
    IF seq = <<>> THEN Empty
    ELSE Snippets[Head(seq)] \o <<"\n">> \o MarkupOf(Tail(seq))

SnippetSeqs == UNION {[1..k -> 1..Len(Snippets)] : k \in 0..MaxSnippets}

InitDetect ==
    /\ d_snippets \in SnippetSeqs
    /\ d_html = MarkupOf(d_snippets)
    /\ d_platform = Empty
    /\ dpc = "call"
    /\ text = Empty
    /\ cleaned_emails = {}
    /\ xpc = "idle"
    /\ site = 1
    /\ start_url = Empty
    /\ max_links = 0
    /\ emails_found = {}
    /\ pos_system = Empty
    /\ loyalty_programs = <<>>
    /\ reservation_platform = Empty
    /\ to_scrape = <<>>
    /\ visited = {}
    /\ base_domain = Empty
    /\ links_scraped = 0
    /\ url = Empty
    /\ pc = "idle"
    /\ returned = <<>>
    /\ history = <<>>

\* lines 269-282
Detect ==
    /\ dpc = "call"
    /\ d_platform' = detect_reservation_platform(d_html)
    /\ dpc' = "done"
    /\ UNCHANGED <<d_snippets, d_html, text, cleaned_emails, xpc, crawl_vars>>

NextDetect == Detect

SpecDetect == InitDetect /\ [][NextDetect]_vars

\* the numbers of the snippets that are triggers of each platform
ResyTriggers == 1..4
OpenTableTriggers == 5..6
TockTriggers == 7..8

\* C14: detect_reservation_platform tries Resy, then OpenTable, then Tock
\* and returns the first that matches: "Resy" when any Resy trigger is
\* present, whatever else is; "OpenTable" with an OpenTable trigger and no
\* Resy trigger; "Tock" with Tock triggers only; "" with no trigger.
C14_DetectionOrder ==
    dpc = "done" =>
        d_platform =
            IF \E i \in DOMAIN d_snippets : d_snippets[i] \in ResyTriggers
            THEN <<"R", "e", "s", "y">>
            ELSE IF \E i \in DOMAIN d_snippets : d_snippets[i] \in OpenTableTriggers
            THEN <<"O", "p", "e", "n", "T", "a", "b", "l", "e">>
            ELSE IF \E i \in DOMAIN d_snippets : d_snippets[i] \in TockTriggers
            THEN <<"T", "o", "c", "k">>
            ELSE <<>>

\* markup with an OpenTable trigger followed by a Resy trigger gave "Resy"
C14_Witness ==
    /\ dpc = "done"
    /\ d_snippets = <<5, 4>>
    /\ d_platform = <<"R", "e", "s", "y">>
----------------------------------------------------------------------------
(* What the history records. *)

\* the iterations that attempted a fetch
Fetches == {i \in DOMAIN history : history[i].what # "skipped"}

\* the iterations whose fetch succeeded
Successes == {i \in DOMAIN history : history[i].what = "ok"}

\* the iterations whose fetch failed
Failures == {i \in DOMAIN history : history[i].what = "failed"}

\* the last iteration recorded
LastEntry == history[Len(history)]

----------------------------------------------------------------------------
(* Claims about the crawl. *)

\* C1: in every reachable state of a crawl, for any max_links >= 0 and any
\* pattern of fetch successes and failures, the count of successfully
\* fetched pages never exceeds max_links.
C1_SuccessesWithinBudget ==
    /\ links_scraped <= max_links
    /\ Cardinality(Successes) <= max_links

\* the budget is used up while a URL is still waiting
C1_Witness ==
    /\ pc = "loop"
    /\ max_links > 1
    /\ links_scraped = max_links
    /\ Cardinality(Successes) = max_links
    /\ to_scrape # <<>>

\* C2: len(visited) + len(to_scrape) never exceeds max_links + 1, neither
\* right after the links of a page are enqueued nor after any other step.
C2_AdmissionCap == Cardinality(visited) + Len(to_scrape) <= max_links + 1

\* the home page of site 1 has been processed, the cap is reached and some
\* of its 8 links were not admitted
C2_Witness ==
    /\ site = 1
    /\ start_url = U_home
    /\ max_links >= 2
    /\ Len(history) = 1
    /\ LastEntry.what = "ok"
    /\ Len(to_scrape) < 8
    /\ Cardinality(visited) + Len(to_scrape) = max_links + 1

\* C3: within one crawl no URL is fetched more than once: the URL being
\* fetched is already in visited, it was never fetched before, and no two
\* fetch attempts of the history are of the same URL, so a URL whose
\* fetch failed is not fetched again when later pages link to it.
C3_NoRefetch ==
    /\ pc = "fetch" => /\ url \in visited
                       /\ \A i \in Fetches : history[i].url # url
    /\ \A i \in Fetches : history[i].url \in visited
    /\ \A i, j \in Fetches : i # j => history[i].url # history[j].url

\* a URL whose fetch failed was linked by a later page, enqueued again,
\* popped and skipped
C3_Witness ==
    \E i \in Failures : \E j \in DOMAIN history :
        /\ i < j
        /\ history[j].what = "skipped"
        /\ history[j].url = history[i].url

\* the step in which the fetch of url fails
FetchFailedStep ==
    /\ pc = "fetch"
    /\ history' = Append(history, [url |-> url, what |-> "failed"])

\* C4: when a fetch fails, the iteration changes nothing except that the
\* URL has been popped and marked visited: the success counter and the
\* findings are unchanged, nothing is appended to the frontier (the failed
\* URL is not enqueued again) and the loop goes on.
C4_FailedFetchChangesNothing ==
    [][FetchFailedStep =>
          /\ url \in visited
          /\ url' = url
          /\ visited' = visited
          /\ to_scrape' = to_scrape
          /\ links_scraped' = links_scraped
          /\ emails_found' = emails_found
          /\ pos_system' = pos_system
          /\ loyalty_programs' = loyalty_programs
          /\ reservation_platform' = reservation_platform
          /\ returned' = returned
          /\ pc' = "loop"]_vars

\* a fetch has just failed in a crawl that already has findings and still
\* has URLs waiting and budget left
C4_Witness ==
    /\ pc = "loop"
    /\ history # <<>>
    /\ LastEntry.what = "failed"
    /\ emails_found # {}
    /\ reservation_platform # Empty
    /\ to_scrape # <<>>
    /\ links_scraped < max_links

\* C5: the crawl loop eventually terminates, and in its final state either
\* the frontier is empty or links_scraped = max_links.
C5_Terminates ==
    <>(pc = "done" /\ (to_scrape = <<>> \/ links_scraped = max_links))

\* the crawl has ended on the budget with URLs still waiting
C5_Witness ==
    /\ pc = "done"
    /\ to_scrape # <<>>
    /\ links_scraped = max_links
    /\ max_links > 0

\* what detect_reservation_platform finds on the page fetched in iteration i
DetectedAt(i) == detect_reservation_platform(PageOf(site, history[i].url).html_content)

\* the successful iterations whose page shows a reservation platform
Detections == {i \in Successes : DetectedAt(i) # Empty}

\* C6: reservation_platform is first-detected-wins in page-visit order: once
\* non-empty it is never changed by a later page, and the crawl returns what
\* the first successfully fetched page with a trigger shows (Resy when a
\* Resy page is visited before an OpenTable page).
C6_FirstDetectedWins ==
    /\ [][reservation_platform # Empty =>
             reservation_platform' = reservation_platform]_vars
    /\ [](pc = "done" =>
             /\ Detections = {} => returned[4] = Empty
             /\ Detections # {} => returned[4] = DetectedAt(Min(Detections)))

\* a page with a Resy trigger was fetched before a page with an OpenTable
\* trigger and the crawl returned "Resy"
C6_Witness ==
    /\ pc = "done"
    /\ returned[4] = S_Resy
    /\ \E i, j \in Successes :
          /\ i < j
          /\ DetectedAt(i) = S_Resy
          /\ DetectedAt(j) = S_OpenTable
          /\ \A k \in Successes : k < i => DetectedAt(k) = Empty

\* the priority links of the home page of site 1, in document order
C7_Priority == priority_links(U_home, PageOf(1, U_home).anchors, netloc(U_home))

\* the normal links of the home page of site 1, in document order
C7_Normal == normal_links(U_home, PageOf(1, U_home).anchors, netloc(U_home))

\* the crawl of site 1 from its home page with max_links = 4, the home page
\* fetched successfully
C7_Case ==
    /\ site = 1
    /\ start_url = U_home
    /\ max_links = 4
    /\ pc # "idle"
    /\ history # <<>>
    /\ history[1].what = "ok"
    /\ Range(C7_Priority) = {U_book, U_tables, U_resy}
    /\ Range(C7_Normal) = {U_menu, U_about, U_hours, U_team, U_press}

\* C7 as stated: the crawl visits the start page plus up to 3 more pages,
\* all from the priority bucket, and successful fetches never exceed 4.
C7_Original ==
    C7_Case =>
        /\ Cardinality(visited \ {start_url}) <= 3
        /\ visited \ {start_url} \subseteq Range(C7_Priority)
        /\ links_scraped <= 4

\* C7 (amended): the crawl fetches successfully the start page plus up to 3
\* more pages; it visits up to 4 more pages, the 3 priority links and, only
\* after all of them and only when a fetch has failed, the first normal
\* link; successful fetches never exceed 4.
C7_Amended ==
    C7_Case =>
        /\ links_scraped <= 4
        /\ Cardinality(Successes \ {1}) <= 3
        /\ Cardinality(visited \ {start_url}) <= 4
        /\ visited \ {start_url} \subseteq Range(C7_Priority) \cup {C7_Normal[1]}
        /\ C7_Normal[1] \in visited =>
              /\ Range(C7_Priority) \subseteq visited
              /\ Failures # {}
        /\ \A i \in 1..Len(to_scrape) : \A j \in 1..Len(to_scrape) :
              (to_scrape[i] \in Range(C7_Priority) /\ to_scrape[j] \in Range(C7_Normal))
                  => i < j

\* a priority page failed and the crawl ended after fetching the first
\* normal link as its fourth success
C7_Witness ==
    /\ C7_Case
    /\ pc = "done"
    /\ links_scraped = 4
    /\ C7_Normal[1] \in visited
    /\ Cardinality(visited) = 5

\* C8: an anchor whose host differs from base_domain is never added to the
\* frontier, whatever its text or URL, so every URL waiting, visited or
\* fetched has host base_domain.
C8_SameHostOnly ==
    /\ \A i \in DOMAIN to_scrape : netloc(to_scrape[i]) = base_domain
    /\ \A u \in visited : netloc(u) = base_domain
    /\ \A i \in Fetches : netloc(history[i].url) = base_domain
    /\ pc = "fetch" => netloc(url) = base_domain

\* the home page of site 2, whose first priority anchors are on other hosts,
\* has been processed: the first link admitted is the same-host /book
C8_Witness ==
    /\ site = 2
    /\ start_url = U_home
    /\ Len(history) = 1
    /\ LastEntry.what = "ok"
    /\ IsPriority(PageOf(2, U_home).anchors[2].text, U_other_host)
    /\ netloc(U_other_host) # base_domain
    /\ to_scrape # <<>>
    /\ Head(to_scrape) = U_book

----------------------------------------------------------------------------
(* Claims about extract_emails. *)

\* the domain of the match at at
DomainOfMatch(s, at) == SubSeq(s, at + 1, MatchEnd(s, at))

\* whether local part raw ends, case-insensitively, with a known username
EndsWithKnownUsername(raw) ==
    \E i \in 1..Len(known_usernames) : endswith(lower(raw), known_usernames[i])

\* the trailing known username of raw, as written in raw
TrailingUsername(raw) ==
    LET i == CHOOSE k \in 1..Len(known_usernames) : endswith(lower(raw), known_usernames[k])
    IN  SubSeq(raw, Len(raw) - Len(known_usernames[i]) + 1, Len(raw))

\* the matches whose raw local part has no known-username suffix and holds a letter
FallbackMatches(s) ==
    {at \in Matches(s) :
        /\ ~EndsWithKnownUsername(RawLocalPart(s, at))
        /\ \E i \in 1..Len(RawLocalPart(s, at)) : RawLocalPart(s, at)[i] \in Letters}

\* raw from the first character of its last run of letters to its end
FromLastRun(raw) ==
    LET e == Max({i \in 1..Len(raw) : raw[i] \in Letters})
    IN  SubSeq(raw, RunStart(raw, e, Letters), Len(raw))

\* the last run of letters of raw alone
LastRunOnly(raw) ==
    LET e == Max({i \in 1..Len(raw) : raw[i] \in Letters})
    IN  SubSeq(raw, RunStart(raw, e, Letters), e)

\* C9 as stated: with no known-username suffix the local part is the last
\* alphabetic run, digits and earlier segments dropped;
\* "reach bob.smith123@place.co.uk" gives exactly {"smith@place.co.uk"}.
C9_Original ==
    xpc = "done" =>
        /\ text = Text_smith => cleaned_emails = {<<"s", "m", "i", "t", "h", "@", "p", "l", "a", "c", "e", ".", "c", "o", ".", "u", "k">>}
        /\ \A at \in FallbackMatches(text) :
              (LastRunOnly(RawLocalPart(text, at)) \o <<"@">> \o DomainOfMatch(text, at))
                  \in cleaned_emails

\* C9 (amended): with no known-username suffix the local part starts at the
\* last alphabetic run and keeps what follows the run (earlier segments are
\* dropped, trailing digits are kept);
\* "reach bob.smith123@place.co.uk" gives exactly {"smith123@place.co.uk"}.
C9_Amended ==
    xpc = "done" =>
        /\ text = Text_smith => cleaned_emails = {<<"s", "m", "i", "t", "h", "1", "2", "3", "@", "p", "l", "a", "c", "e", ".", "c", "o", ".", "u", "k">>}
        /\ \A at \in FallbackMatches(text) :
              (FromLastRun(RawLocalPart(text, at)) \o <<"@">> \o DomainOfMatch(text, at))
                  \in cleaned_emails
        /\ FallbackMatches(text) = Matches(text) =>
              Cardinality(cleaned_emails) <= Cardinality(Matches(text))

\* extraction from "reach bob.smith123@place.co.uk" has run
C9_Witness ==
    /\ xpc = "done"
    /\ text = Text_smith
    /\ FallbackMatches(text) # {}
    /\ cleaned_emails # {}

\* C10: when the raw local part ends, case-insensitively, with a known
\* username, the emitted local part is exactly that trailing username;
\* "Email us at homeinfo@restaurant.com for bookings" gives exactly
\* {"info@restaurant.com"}.
C10_UsernameSuffix ==
    xpc = "done" =>
        /\ text = Text_info => cleaned_emails = {<<"i", "n", "f", "o", "@", "r", "e", "s", "t", "a", "u", "r", "a", "n", "t", ".", "c", "o", "m">>}
        /\ \A at \in Matches(text) :
              EndsWithKnownUsername(RawLocalPart(text, at)) =>
                  /\ (TrailingUsername(RawLocalPart(text, at)) \o <<"@">>
                          \o DomainOfMatch(text, at)) \in cleaned_emails
                  /\ Matches(text) = {at} => Cardinality(cleaned_emails) = 1

\* extraction from "Email us at homeinfo@restaurant.com for bookings" has run
C10_Witness ==
    /\ xpc = "done"
    /\ text = Text_info
    /\ EndsWithKnownUsername(RawLocalPart(text, CHOOSE at \in Matches(text) : TRUE))
    /\ cleaned_emails # {}

----------------------------------------------------------------------------
(* Claims about the order of the frontier and the accounting of visits. *)

\* whether sequence s is a prefix of sequence t
IsPrefix(s, t) == Len(s) <= Len(t) /\ SubSeq(t, 1, Len(s)) = s

\* the links of the page being fetched, priority links first, as lines
\* 362-369 offer them to the frontier
OfferedLinks ==
    priority_links(url, PageOf(site, url).anchors, base_domain)
        \o normal_links(url, PageOf(site, url).anchors, base_domain)

\* C11: the frontier is first-in-first-out: a step either leaves it alone,
\* or removes its first entry (the URL processed next), or appends to its
\* tail, behind every link of earlier pages, the links admitted from the
\* page just fetched, priority links before normal links in document order.
C11_Fifo ==
    [][\/ to_scrape' = to_scrape
       \/ /\ pc = "loop"
          /\ to_scrape # <<>>
          /\ to_scrape' = Tail(to_scrape)
          /\ url' = Head(to_scrape)
       \/ /\ pc = "fetch"
          /\ Serves(site, url)
          /\ IsPrefix(to_scrape, to_scrape')
          /\ IsPrefix(SubSeq(to_scrape', Len(to_scrape) + 1, Len(to_scrape')),
                      OfferedLinks)]_vars

\* in the crawl of site 2 the second link of the home page to /contact is
\* still waiting when the later page /contact is processed: the /book link
\* that page adds is queued behind it
C11_Witness ==
    /\ site = 2
    /\ start_url = U_home
    /\ Len(history) = 4
    /\ history[1] = [url |-> U_home, what |-> "ok"]
    /\ history[2] = [url |-> U_book, what |-> "failed"]
    /\ history[3] = [url |-> U_home, what |-> "skipped"]
    /\ history[4] = [url |-> U_contact, what |-> "ok"]
    /\ to_scrape = <<U_contact, U_book>>

\* C12: between iterations and at the end of the crawl len(visited) is at
\* most links_scraped plus the number of URLs whose fetch failed: every URL
\* in visited was fetched successfully or failed, and is counted once.
C12_VisitedAccounted ==
    pc \in {"loop", "done"} =>
        /\ Cardinality(visited) <= links_scraped + Cardinality(Failures)
        /\ links_scraped = Cardinality(Successes)
        /\ visited = {history[i].url : i \in Fetches}
        /\ Cardinality(visited) = Cardinality(Fetches)

\* a crawl has ended after successes, failures and a skipped entry
C12_Witness ==
    /\ pc = "done"
    /\ Cardinality(Successes) >= 2
    /\ Cardinality(Failures) >= 1
    /\ \E i \in DOMAIN history : history[i].what = "skipped"
    /\ Cardinality(visited) = links_scraped + Cardinality(Failures)

----------------------------------------------------------------------------
(* Claims about the findings. *)

\* the step in which the fetch of url succeeds and its page is processed
FetchOkStep ==
    /\ pc = "fetch"
    /\ history' = Append(history, [url |-> url, what |-> "ok"])

\* C15: every email in emails_found that contains ".com" ends right after
\* its first ".com"; a successful fetch adds every extracted email without
\* ".com" unmodified and every one with ".com" cut after its first ".com".
C15_ComTruncation ==
    /\ [](\A e \in emails_found :
             contains(e, <<".", "c", "o", "m">>) => Len(e) = find(e, <<".", "c", "o", "m">>) + 4)
    /\ [][FetchOkStep =>
             \A e \in extract_emails(PageOf(site, url).text) :
                 IF contains(e, <<".", "c", "o", "m">>)
                 THEN SubSeq(e, 1, find(e, <<".", "c", "o", "m">>) + 4) \in emails_found'
                 ELSE e \in emails_found']_vars

\* the crawl of site 2 has collected an email kept as it is and two emails
\* cut after ".com", one of them with a second ".com" further on
C15_Witness ==
    /\ site = 2
    /\ <<"s", "a", "l", "e", "s", "@", "a", ".", "c", "o">> \in emails_found
    /\ <<"I", "n", "f", "o", "@", "a", ".", "c", "o", "m">> \in emails_found
    /\ <<"e", "a", "t", "@", "a", ".", "c", "o", "m">> \in emails_found
    /\ <<"e", "a", "t", "@", "a", ".", "c", "o", "m", ".", "c", "o", "m", "p", "a", "n", "y">> \in extract_emails(PageOf(2, U_book).text)
    /\ <<"I", "n", "f", "o", "@", "a", ".", "c", "o", "m", "N", "o", "w">> \in extract_emails(PageOf(2, U_contact).text)

\* C16: the findings only grow: no step removes an email from emails_found
\* or a program from loyalty_programs, which holds "inKind" and "SpotOn" at
\* most once each; pos_system is "" or "Toast" and, once "Toast", stays so.
C16_FindingsMonotone ==
    /\ [](/\ pos_system \in {Empty, <<"T", "o", "a", "s", "t">>}
          /\ Range(loyalty_programs) \subseteq {<<"i", "n", "K", "i", "n", "d">>, <<"S", "p", "o", "t", "O", "n">>}
          /\ \A i, j \in DOMAIN loyalty_programs :
                i # j => loyalty_programs[i] # loyalty_programs[j])
    /\ [][/\ emails_found \subseteq emails_found'
          /\ Range(loyalty_programs) \subseteq Range(loyalty_programs')
          /\ pos_system = <<"T", "o", "a", "s", "t">> => pos_system' = <<"T", "o", "a", "s", "t">>]_vars

\* after "Toast" and an email were found two more pages have been fetched
\* successfully, two pages showed "SpotOn", and the findings are still there
C16_Witness ==
    /\ pos_system = <<"T", "o", "a", "s", "t">>
    /\ loyalty_programs # <<>>
    /\ emails_found # {}
    /\ \E i \in Successes :
          /\ contains(PageOf(site, history[i].url).html_content, <<"w", "w", "w", ".", "t", "o", "a", "s", "t", "t", "a", "b", ".", "c", "o", "m">>)
          /\ Cardinality({j \in Successes : j > i}) >= 2
    /\ Cardinality({i \in Successes :
          contains(PageOf(site, history[i].url).html_content, <<"s", "p", "o", "t", "o", "n", ".", "c", "o", "m">>)}) >= 2

----------------------------------------------------------------------------
(* Claims about what the frontier holds and what a skip does. *)

\* C17 as stated: no URL in the frontier is already in visited, and no URL
\* appears in the frontier more than once.
C17_Original ==
    /\ \A i \in DOMAIN to_scrape : to_scrape[i] \notin visited
    /\ \A i, j \in DOMAIN to_scrape : i # j => to_scrape[i] # to_scrape[j]

\* C17 (amended): the frontier is an ordered sequence of URLs awaiting
\* processing, which may hold a URL that is already in visited and may hold
\* a URL more than once; no such entry is fetched from it: the entry at the
\* front starts a fetch only if it is not in visited, and is otherwise
\* removed without a fetch.
C17_Amended ==
    [][(pc = "loop" /\ to_scrape # <<>> /\ to_scrape' = Tail(to_scrape)) =>
          IF Head(to_scrape) \in visited
          THEN pc' = "loop" /\ Fetches' = Fetches
          ELSE pc' = "fetch" /\ url' = Head(to_scrape) /\ url' \in visited']_vars

\* a page has just been processed and the frontier holds a URL that is in
\* visited and a URL that it holds twice
C17_Witness ==
    /\ pc = "loop"
    /\ history # <<>>
    /\ LastEntry.what = "ok"
    /\ \E i \in DOMAIN to_scrape : to_scrape[i] \in visited
    /\ \E i, j \in DOMAIN to_scrape : i < j /\ to_scrape[i] = to_scrape[j]

\* whether the path of URL u ends with .pdf, .jpg or .png
C18_BlockedPath(u) ==
    \/ endswith(path(u), <<".", "p", "d", "f">>)
    \/ endswith(path(u), <<".", "j", "p", "g">>)
    \/ endswith(path(u), <<".", "p", "n", "g">>)

\* C18: a same-host link whose resolved path ends with .pdf, .jpg or .png
\* is never added to the frontier, whether or not its text or URL holds a
\* priority keyword: processing a page adds no such URL, and so no such
\* URL is ever in the frontier or fetched.
C18_BlockedNeverQueued ==
    /\ [](\A i \in DOMAIN to_scrape : ~C18_BlockedPath(to_scrape[i]))
    /\ [](\A u \in visited : ~C18_BlockedPath(u))
    /\ [][FetchOkStep =>
             \A i \in DOMAIN PageOf(site, url).anchors :
                LET absolute_link == urljoin(url, PageOf(site, url).anchors[i].href)
                IN  (netloc(absolute_link) = base_domain /\ C18_BlockedPath(absolute_link))
                        => absolute_link \notin Range(to_scrape')]_vars

\* a page has just been processed that links to a same-host image with a
\* priority keyword in its text and to one without, and the frontier still
\* had room for another link after the page's links were added
C18_Witness ==
    /\ pc = "loop"
    /\ history # <<>>
    /\ LastEntry.what = "ok"
    /\ AdmitOk(visited, to_scrape, max_links)
    /\ LET anchors == PageOf(site, LastEntry.url).anchors
           Blocked(i) == LET l == urljoin(LastEntry.url, anchors[i].href)
                         IN  netloc(l) = base_domain /\ C18_BlockedPath(l)
       IN  /\ \E i \in DOMAIN anchors :
                 Blocked(i) /\ IsPriority(anchors[i].text, urljoin(LastEntry.url, anchors[i].href))
           /\ \E i \in DOMAIN anchors :
                 Blocked(i) /\ ~IsPriority(anchors[i].text, urljoin(LastEntry.url, anchors[i].href))

\* C19: when the URL popped from the frontier is already in visited, the
\* iteration only removes that entry from the frontier: no fetch is
\* attempted, and visited, the success counter and all findings are left
\* unchanged.
C19_SkipFrame ==
    [][(/\ pc = "loop"
        /\ to_scrape # <<>>
        /\ Head(to_scrape) \in visited
        /\ pc' # "done") =>
          /\ to_scrape' = Tail(to_scrape)
          /\ pc' = "loop"
          /\ Fetches' = Fetches
          /\ visited' = visited
          /\ links_scraped' = links_scraped
          /\ emails_found' = emails_found
          /\ pos_system' = pos_system
          /\ loyalty_programs' = loyalty_programs
          /\ reservation_platform' = reservation_platform
          /\ returned' = returned]_vars

\* an already visited URL has just been popped, after pages were fetched
\* and findings gathered, with further entries still in the frontier
C19_Witness ==
    /\ pc = "loop"
    /\ history # <<>>
    /\ LastEntry.what = "skipped"
    /\ LastEntry.url \in visited
    /\ links_scraped >= 2
    /\ emails_found # {}
    /\ reservation_platform # Empty
    /\ to_scrape # <<>>

\* the local part of email e: what precedes its first '@'
C20_LocalPartOf(e) == SubSeq(e, 1, find(e, <<"@">>))

\* the domain of email e: what follows its first '@'
C20_DomainOf(e) == SubSeq(e, find(e, <<"@">>) + 2, Len(e))

\* whether the allowed characters immediately before the '@' at at hold no
\* letter and no digit (in particular, whether there are none)
C20_NoAlphanumeric(s, at) ==
    \A i \in 1..Len(RawLocalPart(s, at)) : RawLocalPart(s, at)[i] \notin Letters \cup Digits

\* C20: every email returned by extract_emails has a non-empty local part
\* whose first character is a letter or digit, followed by '@' and the
\* matched domain, the local part being an end piece of the allowed
\* characters immediately before that '@'; a match with no allowed
\* character immediately before '@', or with none that is a letter or
\* digit, contributes no email.
C20_WellFormedEmails ==
    xpc = "done" =>
        /\ \A e \in cleaned_emails :
              /\ find(e, <<"@">>) >= 1
              /\ e[1] \in Letters \cup Digits
              /\ \E at \in Matches(text) :
                    /\ C20_DomainOf(e) = DomainOfMatch(text, at)
                    /\ RawLocalPart(text, at) # <<>>
                    /\ endswith(RawLocalPart(text, at), C20_LocalPartOf(e))
        /\ \A at \in Matches(text) :
              C20_NoAlphanumeric(text, at) =>
                  \A e \in cleaned_emails : C20_DomainOf(e) # DomainOfMatch(text, at)
        /\ text = Text_mixed => cleaned_emails = {<<"7", "@", "z", ".", "c", "o", "m">>}

\* a call on a text with a match that has nothing before its '@', a match
\* that has only punctuation before its '@', and a match that gives an email
C20_Witness ==
    /\ xpc = "done"
    /\ \E at \in Matches(text) : RawLocalPart(text, at) = <<>>
    /\ \E at \in Matches(text) :
          RawLocalPart(text, at) # <<>> /\ C20_NoAlphanumeric(text, at)
    /\ cleaned_emails # {}

----------------------------------------------------------------------------
(* Claim about the total number of fetch attempts. *)

\* C21: for max_links >= 0 the number of fetch attempts of one crawl (the
\* distinct URLs ever placed in visited) is at most max_links + 1, whatever
\* the pages link to and whichever fetches fail; it exceeds max_links only
\* when at least one fetch has failed (and then max_links is at least 2).
C21_AttemptsBound ==
    /\ Cardinality(visited) <= max_links + 1
    /\ Cardinality(Fetches) <= max_links + 1
    /\ Cardinality(visited) > max_links => (Failures # {} /\ max_links >= 2)

\* a finished crawl in which a fetch failed and the number of URLs placed
\* in visited is max_links + 1
C21_Witness ==
    /\ pc = "done"
    /\ Failures # {}
    /\ Cardinality(visited) = max_links + 1
    /\ Cardinality(Fetches) = max_links + 1
    /\ links_scraped = max_links

=============================================================================
